---- MODULE Spec2Model ----
(***************************************************************************)
(* Quota-gated admission control of dev_server.py (DevHandler).            *)
(*                                                                         *)
(* The model follows the handler threads of ThreadingHTTPServer through    *)
(* do_POST, _pick_model and _consume_limit.  The ledger is the SQLite      *)
(* database behind _get_db: two committed tables (usage_day, usage_minute) *)
(* and one write lock.  Every connection is opened with the sqlite3        *)
(* module's default isolation level, so the first data-modifying statement *)
(* of _consume_limit (the DELETE that prunes old minute buckets) opens a   *)
(* transaction and takes the database write lock; the lock is held until   *)
(* commit() or until close() rolls the transaction back.  A connection     *)
(* that finds the lock taken waits (busy timeout, timeout=5) and raises    *)
(* sqlite3.OperationalError when the wait runs out.                        *)
(*                                                                         *)
(* Time is the wall clock in whole seconds since the epoch (UTC).          *)
(***************************************************************************)
EXTENDS Integers, Sequences, FiniteSets, TLC

VARIABLES
    clock,          \* wall clock, seconds since the epoch
    env,            \* process environment (os.environ), fixed while the server runs
    usage_day,      \* committed table usage_day:    <<day, scope>>    -> count
    usage_minute,   \* committed table usage_minute: <<minute, scope>> -> count
    writer,         \* handler whose connection holds the write lock, 0 if none
    conn,           \* per handler: the sqlite3 connection of the running _consume_limit
    call,           \* per handler: the frame of the running _consume_limit
    post,           \* per handler: the frame of do_POST (and of _pick_model)
    arrivals,       \* number of requests accepted so far
    tally           \* executions of _consume_limit that ended: <<scope, day, minute, outcome>> -> number

vars == <<clock, env, usage_day, usage_minute, writer, conn, call, post, arrivals, tally>>

-----------------------------------------------------------------------------
(* Bounds of the model *)

\* first instant of the run: 23:58:30 UTC of day 0
StartClock == 86310
\* requests of a run of Spec
MaxRequests == 2
\* seconds a run of Spec lasts
MaxElapsed == 30
\* requests of a run of SpecBurst (the K of a burst)
BurstRequests == 3
\* seconds a run of SpecBurst lasts
BurstElapsed == 30
\* requests of a run of SpecSeq
SeqRequests == 4
\* seconds a run of SpecSeq lasts
SeqElapsed == 90
\* requests of a run of SpecScenario
ScenarioRequests == 6
\* seconds a run of SpecScenario lasts
ScenarioElapsed == 60

\* handler threads (one per request in flight)
Handlers == {1, 2, 3}

-----------------------------------------------------------------------------
(* Program constants *)

SecondsPerMinute == 60
SecondsPerDay == 86400
KeepMinutes == 10
MinDailyRetry == 60
DefaultPickRetry == 60

None == "None"
EmptyDict == [k \in {} |-> ""]
NoHeaders == [none |-> TRUE]
EmptyTable == [k \in {} |-> 0]

SiteTotal == "site_total"
PathGemini == "/api/gemini"
PathDeck == "/api/flashcraft/generate_deck"

Flash == "gemini-2.5-flash"
FlashLite == "gemini-2.5-flash-lite"
Flash3 == "gemini-3-flash"
Gemma == "gemma-3-1b"
GemmaModels == {Gemma}

-----------------------------------------------------------------------------
(* Pure functions *)

Digit == <<"0", "1", "2", "3", "4", "5", "6", "7", "8", "9">>

\* str(n) of a non-negative int: its decimal digits
RECURSIVE Str(_)
Str(n) == IF n < 10 THEN Digit[n + 1] ELSE Str(n \div 10) \o Digit[(n % 10) + 1]

Max(a, b) == IF a >= b THEN a ELSE b

Min(a, b) == IF a <= b THEN a ELSE b

\* the sum of table[k] over the keys k
RECURSIVE SumOf(_, _)
SumOf(table, keys) ==
    IF keys = {} THEN 0
    ELSE LET k == CHOOSE q \in keys : TRUE IN table[k] + SumOf(table, keys \ {k})

\* now.strftime("%Y-%m-%d"): the UTC calendar day, as the number of the day
DayOf(t) == t \div SecondsPerDay

\* int(time.time() // 60)
MinuteOf(t) == t \div SecondsPerMinute

\* _default_model_limits(model): (RPD, RPM)
DefaultModelLimits(model) ==
    IF model = Flash THEN <<20, 5>>
    ELSE IF model = FlashLite THEN <<20, 10>>
    ELSE IF model = Flash3 THEN <<20, 5>>
    ELSE IF model \in GemmaModels THEN <<14400, 30>>
    ELSE <<20, 5>>

\* model_limits.get(model, _default_model_limits(model)), model_limits being
\* _parse_model_limits(): the overrides of GEMINI_MODEL_LIMITS_JSON
ModelLimits(model) ==
    IF model \in DOMAIN env.limits THEN env.limits[model] ELSE DefaultModelLimits(model)

\* f"gemini:{model}"
ModelScope(model) == "gemini:" \o model

\* set(_split_csv(GEMINI_ALLOWED_MODELS)), {"gemini-2.5-flash"} when empty
AllowedModels == IF env.allowed = {} THEN {Flash} ELSE env.allowed

\* SELECT count ... ; row[0] if row else 0
Count(table, key) == IF key \in DOMAIN table THEN table[key] ELSE 0

\* INSERT ... VALUES(?,?,1) ON CONFLICT DO UPDATE SET count = count + 1
Upsert(table, key) ==
    IF key \in DOMAIN table THEN [table EXCEPT ![key] = @ + 1] ELSE table @@ (key :> 1)

\* (mutant) the DELETE also takes the bucket that is exactly ten minutes old
DeleteOld_Inclusive(table, minute) ==
    [k \in {q \in DOMAIN table : ~(q[1] <= minute - KeepMinutes)} |-> table[k]]

\* DELETE FROM usage_minute WHERE minute < ?   with ? = minute - 10
DeleteOld(table, minute) ==
    [k \in {q \in DOMAIN table : ~(q[1] < minute - KeepMinutes)} |-> table[k]]

\* SELECT count FROM usage_day WHERE day = ? AND scope = ?; row[0] if row else 0
ReadDayRow(table, day, scope) == Count(table, <<day, scope>>)

\* (mutant) the minute count of the scope over every minute: a window that never resets
ReadMinuteRow_AnyMinute(table, minute, scope) ==
    SumOf(table, {k \in DOMAIN table : k[2] = scope})

\* SELECT count FROM usage_minute WHERE minute = ? AND scope = ?; row[0] if row else 0
ReadMinuteRow(table, minute, scope) == Count(table, <<minute, scope>>)

\* (mutant) off by one: the limit is passed before it denies
DailyExceeded_Late(rpd_limit, day_count) == rpd_limit > 0 /\ day_count > rpd_limit

\* rpd_limit > 0 and day_count >= rpd_limit
DailyExceeded(rpd_limit, day_count) == rpd_limit > 0 /\ day_count >= rpd_limit

\* (mutant) off by one: the limit is passed before it denies
MinuteExceeded_Late(rpm_limit, minute_count) == rpm_limit > 0 /\ minute_count > rpm_limit

\* rpm_limit > 0 and minute_count >= rpm_limit
MinuteExceeded(rpm_limit, minute_count) == rpm_limit > 0 /\ minute_count >= rpm_limit

\* max(60, int((next_midnight - now).total_seconds()))
DailyRetryAfter(now) == Max(MinDailyRetry, (DayOf(now) + 1) * SecondsPerDay - now)

\* max(1, 60 - int(time.time() % 60))
MinuteRetryAfter(t) == Max(1, SecondsPerMinute - (t % SecondsPerMinute))

HeaderNames ==
    {"X-RateLimit-Scope", "X-RateLimit-RPD-Limit", "X-RateLimit-RPD-Used",
     "X-RateLimit-RPM-Limit", "X-RateLimit-RPM-Used"}

\* the headers dict of _consume_limit
Headers(scope, rpd_limit, day_count, rpm_limit, minute_count) ==
    [k \in HeaderNames |->
        CASE k = "X-RateLimit-Scope" -> scope
          [] k = "X-RateLimit-RPD-Limit" -> Str(rpd_limit)
          [] k = "X-RateLimit-RPD-Used" -> Str(day_count)
          [] k = "X-RateLimit-RPM-Limit" -> Str(rpm_limit)
          [] k = "X-RateLimit-RPM-Used" -> Str(minute_count)]

\* {**a, **b}: the keys of b take precedence
Merge(a, b) == [k \in DOMAIN a \cup DOMAIN b |-> IF k \in DOMAIN b THEN b[k] ELSE a[k]]

\* rl_headers or {}
OrEmpty(h) == IF h = NoHeaders THEN EmptyDict ELSE h

-----------------------------------------------------------------------------
(* Frames *)

NoConn == [open |-> FALSE, tx |-> FALSE, day |-> EmptyTable, minute |-> EmptyTable]

NoCall ==
    [pc |-> "none", scope |-> "", rpd_limit |-> 0, rpm_limit |-> 0,
     now |-> 0, day |-> 0, minute |-> 0, day_count |-> 0, minute_count |-> 0,
     allowed |-> TRUE, retry_after |-> 0, headers |-> EmptyDict,
     ok |-> FALSE]

\* self._consume_limit(scope, rpd_limit, rpm_limit): the frame at its first line
Invoke(scope, rpd_limit, rpm_limit) ==
    [NoCall EXCEPT !.pc = "now", !.scope = scope,
                   !.rpd_limit = rpd_limit, !.rpm_limit = rpm_limit]

IdlePost ==
    [at |-> "idle", path |-> "", requested |-> "", has_source |-> FALSE,
     total_headers |-> EmptyDict, rl_headers |-> EmptyDict, model |-> None,
     preferred |-> <<>>, idx |-> 0, last_headers |-> NoHeaders, max_retry_after |-> 0,
     status |-> 0, retry_after |-> 0, sent |-> EmptyDict, evals |-> <<>>]

\* (mutant) the headers keep the counts read before the increment
UsedAfter_Stale(count) == Str(count)

\* str(day_count + 1), str(minute_count + 1): the used count after the increment
UsedAfter(count) == Str(count + 1)

\* what an execution of _consume_limit ended with: "allowed" and "denied" are the
\* returned (allowed, retry_after, headers), "error" is a raised exception
Ended(h, outcome) ==
    [scope |-> call[h].scope, day |-> call[h].day, minute |-> call[h].minute,
     outcome |-> outcome,
     retry_after |-> IF outcome = "denied" THEN call[h].retry_after ELSE 0,
     headers |-> IF outcome = "allowed"
                 THEN [call[h].headers EXCEPT
                          !["X-RateLimit-RPD-Used"] = UsedAfter(call[h].day_count),
                          !["X-RateLimit-RPM-Used"] = UsedAfter(call[h].minute_count)]
                 ELSE call[h].headers]

\* the request of h records what its execution of _consume_limit ended with
Recorded(h, outcome) ==
    [post EXCEPT ![h] = [@ EXCEPT !.evals = Append(@, Ended(h, outcome))]]

\* the tally counts the ended execution of h
Tallied(h, outcome) ==
    Upsert(tally, <<call[h].scope, call[h].day, call[h].minute, outcome>>)

-----------------------------------------------------------------------------
(* The clock *)

\* d seconds pass; a run lasts at most `elapsed` seconds
Tick(d, elapsed) ==
    /\ clock + d <= StartClock + elapsed
    /\ clock' = clock + d
    /\ UNCHANGED <<env, usage_day, usage_minute, writer, conn, call, post, arrivals, tally>>

-----------------------------------------------------------------------------
(* _consume_limit, one action per statement that touches the clock or the ledger *)

\* now = datetime.now(timezone.utc); day = now.strftime("%Y-%m-%d")
ReadNow(h) ==
    /\ call[h].pc = "now"
    /\ call' = [call EXCEPT ![h] = [@ EXCEPT !.pc = "minute", !.now = clock,
                                             !.day = DayOf(clock)]]
    /\ UNCHANGED <<clock, env, usage_day, usage_minute, writer, conn, post, arrivals, tally>>

\* minute = int(time.time() // 60)
ReadMinute(h) ==
    /\ call[h].pc = "minute"
    /\ call' = [call EXCEPT ![h] = [@ EXCEPT !.pc = "getdb", !.minute = MinuteOf(clock)]]
    /\ UNCHANGED <<clock, env, usage_day, usage_minute, writer, conn, post, arrivals, tally>>

\* conn = self._get_db(): connect; the tables exist (CREATE TABLE IF NOT EXISTS)
GetDb(h) ==
    /\ call[h].pc = "getdb"
    /\ conn' = [conn EXCEPT ![h] = [NoConn EXCEPT !.open = TRUE]]
    /\ call' = [call EXCEPT ![h] = [@ EXCEPT !.pc = "prune"]]
    /\ UNCHANGED <<clock, env, usage_day, usage_minute, writer, post, arrivals, tally>>

\* (mutant) the DELETE takes no lock: every connection writes at once
LockFree_NoLock(h) == TRUE

\* the write lock can be taken by h's connection
LockFree(h) == writer = 0

\* cur.execute("DELETE FROM usage_minute WHERE minute < ?", (minute - 10,)):
\* the implicit BEGIN, the write lock, and the delete inside the transaction
Prune(h) ==
    /\ call[h].pc = "prune"
    /\ LockFree(h)
    /\ writer' = h
    /\ conn' = [conn EXCEPT ![h] = [@ EXCEPT !.tx = TRUE, !.day = usage_day,
                                             !.minute = DeleteOld(usage_minute, call[h].minute)]]
    /\ call' = [call EXCEPT ![h] = [@ EXCEPT !.pc = "read_day"]]
    /\ UNCHANGED <<clock, env, usage_day, usage_minute, post, arrivals, tally>>

\* (mutant) close() commits what the transaction holds
AfterClose_Commits(h) == <<conn[h].day, conn[h].minute>>

\* the tables after conn.close(): a pending transaction is rolled back
AfterClose(h) == <<usage_day, usage_minute>>

\* the same DELETE when another connection holds the write lock for longer than the busy
\* timeout: sqlite3.OperationalError (database is locked); finally: conn.close()
PruneLocked(h) ==
    /\ call[h].pc = "prune"
    /\ writer # 0
    /\ writer # h
    /\ conn' = [conn EXCEPT ![h] = NoConn]
    /\ call' = [call EXCEPT ![h] = [@ EXCEPT !.pc = "raised"]]
    /\ post' = Recorded(h, "error")
    /\ tally' = Tallied(h, "error")
    /\ UNCHANGED <<clock, env, usage_day, usage_minute, writer, arrivals>>

\* SELECT count FROM usage_day WHERE day = ? AND scope = ?
ReadDayCount(h) ==
    /\ call[h].pc = "read_day"
    /\ call' = [call EXCEPT ![h] =
                  [@ EXCEPT !.pc = "read_minute",
                            !.day_count = ReadDayRow(conn[h].day, call[h].day, call[h].scope)]]
    /\ UNCHANGED <<clock, env, usage_day, usage_minute, writer, conn, post, arrivals, tally>>

\* SELECT count FROM usage_minute WHERE minute = ? AND scope = ?
ReadMinuteCount(h) ==
    /\ call[h].pc = "read_minute"
    /\ call' = [call EXCEPT ![h] =
                  [@ EXCEPT !.pc = "decide",
                            !.minute_count =
                                ReadMinuteRow(conn[h].minute, call[h].minute, call[h].scope)]]
    /\ UNCHANGED <<clock, env, usage_day, usage_minute, writer, conn, post, arrivals, tally>>

\* line 133: sqlite3.connect or a statement of _get_db raises sqlite3.Error (the file
\* cannot be opened); _consume_limit has not entered its try block yet
GetDbFails(h) ==
    /\ call[h].pc = "getdb"
    /\ call' = [call EXCEPT ![h] = [@ EXCEPT !.pc = "raised"]]
    /\ post' = Recorded(h, "error")
    /\ tally' = Tallied(h, "error")
    /\ UNCHANGED <<clock, env, usage_day, usage_minute, writer, conn, arrivals>>

\* the statements of _consume_limit that run inside the transaction
InTransaction == {"read_day", "read_minute", "insert_day", "insert_minute", "commit"}

\* lines 140-179: a SELECT, an INSERT or commit() raises sqlite3.Error (the store cannot
\* be queried); finally: conn.close() rolls the transaction back and releases the lock
QueryFails(h) ==
    /\ call[h].pc \in InTransaction
    /\ usage_day' = AfterClose(h)[1]
    /\ usage_minute' = AfterClose(h)[2]
    /\ writer' = IF writer = h THEN 0 ELSE writer
    /\ conn' = [conn EXCEPT ![h] = NoConn]
    /\ call' = [call EXCEPT ![h] = [@ EXCEPT !.pc = "raised"]]
    /\ post' = Recorded(h, "error")
    /\ tally' = Tallied(h, "error")
    /\ UNCHANGED <<clock, env, arrivals>>

\* (mutant) the minute test does not look at the outcome of the daily test
MinuteDenies_Regardless(allowed, rpm_limit, minute_count) ==
    MinuteExceeded(rpm_limit, minute_count)

\* line 155: if allowed and rpm_limit > 0 and minute_count >= rpm_limit
MinuteDenies(allowed, rpm_limit, minute_count) ==
    allowed /\ MinuteExceeded(rpm_limit, minute_count)

\* lines 148-165: the decision, retry_after and the headers; the minute denial reads
\* the clock again (time.time() % 60)
Decide(h) ==
    /\ call[h].pc = "decide"
    /\ LET c == call[h]
           daily == DailyExceeded(c.rpd_limit, c.day_count)
           minutely == MinuteDenies(~daily, c.rpm_limit, c.minute_count)
           allowed == ~daily /\ ~minutely
           retry_after == IF minutely THEN MinuteRetryAfter(clock)
                          ELSE IF daily THEN DailyRetryAfter(c.now)
                          ELSE 0
       IN call' = [call EXCEPT ![h] =
                     [@ EXCEPT !.pc = IF allowed THEN "insert_day" ELSE "deny",
                               !.allowed = allowed,
                               !.retry_after = retry_after,
                               !.headers = Headers(c.scope, c.rpd_limit, c.day_count,
                                                   c.rpm_limit, c.minute_count)]]
    /\ UNCHANGED <<clock, env, usage_day, usage_minute, writer, conn, post, arrivals, tally>>

\* (mutant) the denial returns without the finally block: the connection stays open
Deny_NoClose(h) ==
    /\ call[h].pc = "deny"
    /\ call' = [call EXCEPT ![h] = [@ EXCEPT !.pc = "returned", !.ok = FALSE]]
    /\ post' = Recorded(h, "denied")
    /\ tally' = Tallied(h, "denied")
    /\ UNCHANGED <<clock, env, usage_day, usage_minute, writer, conn, arrivals>>

\* if not allowed: return False, retry_after, headers; finally: conn.close()
Deny(h) ==
    /\ call[h].pc = "deny"
    /\ usage_day' = AfterClose(h)[1]
    /\ usage_minute' = AfterClose(h)[2]
    /\ writer' = 0
    /\ conn' = [conn EXCEPT ![h] = NoConn]
    /\ call' = [call EXCEPT ![h] = [@ EXCEPT !.pc = "returned", !.ok = FALSE]]
    /\ post' = Recorded(h, "denied")
    /\ tally' = Tallied(h, "denied")
    /\ UNCHANGED <<clock, env, arrivals>>

\* (mutant) the connection is in autocommit mode: the day row is committed by its INSERT
InsertDay_Autocommit(h) ==
    /\ call[h].pc = "insert_day"
    /\ usage_day' = Upsert(usage_day, <<call[h].day, call[h].scope>>)
    /\ conn' = [conn EXCEPT ![h] =
                  [@ EXCEPT !.day = Upsert(@, <<call[h].day, call[h].scope>>)]]
    /\ call' = [call EXCEPT ![h] = [@ EXCEPT !.pc = "insert_minute"]]
    /\ UNCHANGED <<clock, env, usage_minute, writer, post, arrivals, tally>>

\* (mutant) the day row is written only for a scope that has a daily limit
InsertDay_IfLimited(h) ==
    /\ call[h].pc = "insert_day"
    /\ conn' = [conn EXCEPT ![h] =
                  [@ EXCEPT !.day = IF call[h].rpd_limit > 0
                                    THEN Upsert(@, <<call[h].day, call[h].scope>>)
                                    ELSE @]]
    /\ call' = [call EXCEPT ![h] = [@ EXCEPT !.pc = "insert_minute"]]
    /\ UNCHANGED <<clock, env, usage_day, usage_minute, writer, post, arrivals, tally>>

\* INSERT INTO usage_day ... ON CONFLICT(day, scope) DO UPDATE SET count = count + 1
InsertDay(h) ==
    /\ call[h].pc = "insert_day"
    /\ conn' = [conn EXCEPT ![h] =
                  [@ EXCEPT !.day = Upsert(@, <<call[h].day, call[h].scope>>)]]
    /\ call' = [call EXCEPT ![h] = [@ EXCEPT !.pc = "insert_minute"]]
    /\ UNCHANGED <<clock, env, usage_day, usage_minute, writer, post, arrivals, tally>>

\* INSERT INTO usage_minute ... ON CONFLICT(minute, scope) DO UPDATE SET count = count + 1
InsertMinute(h) ==
    /\ call[h].pc = "insert_minute"
    /\ conn' = [conn EXCEPT ![h] =
                  [@ EXCEPT !.minute = Upsert(@, <<call[h].minute, call[h].scope>>)]]
    /\ call' = [call EXCEPT ![h] = [@ EXCEPT !.pc = "commit"]]
    /\ UNCHANGED <<clock, env, usage_day, usage_minute, writer, post, arrivals, tally>>

\* conn.commit(): the transaction's tables become the committed ones, the lock is released
Commit(h) ==
    /\ call[h].pc = "commit"
    /\ usage_day' = conn[h].day
    /\ usage_minute' = conn[h].minute
    /\ writer' = IF writer = h THEN 0 ELSE writer
    /\ conn' = [conn EXCEPT ![h] = [@ EXCEPT !.tx = FALSE]]
    /\ call' = [call EXCEPT ![h] = [@ EXCEPT !.pc = "return_ok"]]
    /\ UNCHANGED <<clock, env, post, arrivals, tally>>

\* headers[...-Used] = str(count + 1); return True, 0, headers; finally: conn.close()
ReturnAllowed(h) ==
    /\ call[h].pc = "return_ok"
    /\ conn' = [conn EXCEPT ![h] = NoConn]
    /\ call' = [call EXCEPT ![h] =
                  [@ EXCEPT !.pc = "returned", !.ok = TRUE, !.retry_after = 0,
                            !.headers = Ended(h, "allowed").headers]]
    /\ post' = Recorded(h, "allowed")
    /\ tally' = Tallied(h, "allowed")
    /\ UNCHANGED <<clock, env, usage_day, usage_minute, writer, arrivals>>

-----------------------------------------------------------------------------
(* do_POST and _pick_model *)

\* a handler thread that serves no request
Free(h) == post[h].at = "idle"

\* the 429 response of do_POST: Retry-After and the rate-limit headers
Respond429(frame, retry_after, headers) ==
    [frame EXCEPT !.at = "done", !.status = 429, !.retry_after = retry_after,
                  !.sent = headers]

\* lines 220-259: a POST arrives on a valid path with a JSON body and GEMINI_API_KEY
\* set; the optional site-total cap is evaluated first
DoPost(h, threads, budget, path, requested, has_source) ==
    /\ h \in threads
    /\ Free(h)
    /\ \A g \in threads : g < h => ~Free(g)
    /\ arrivals < budget
    /\ arrivals' = arrivals + 1
    /\ LET capped == env.total_rpd > 0 \/ env.total_rpm > 0
       IN /\ post' = [post EXCEPT ![h] =
                        [IdlePost EXCEPT !.at = IF capped THEN "total" ELSE "route",
                                         !.path = path,
                                         !.requested = requested,
                                         !.has_source = has_source]]
          /\ call' = [call EXCEPT ![h] =
                        IF capped THEN Invoke(SiteTotal, env.total_rpd, env.total_rpm)
                        ELSE NoCall]
    /\ UNCHANGED <<clock, env, usage_day, usage_minute, writer, conn, tally>>

\* (mutant) a denial of the site-total evaluation is not answered: the request goes on
\* to its model
TotalReturn_FallsThrough(h) ==
    /\ post[h].at = "total"
    /\ call[h].pc = "returned"
    /\ post' = [post EXCEPT ![h] =
                  [@ EXCEPT !.at = "route", !.total_headers = call[h].headers]]
    /\ call' = [call EXCEPT ![h] = NoCall]
    /\ UNCHANGED <<clock, env, usage_day, usage_minute, writer, conn, arrivals, tally>>

\* lines 259-268: the site-total evaluation returned
TotalReturn(h) ==
    /\ post[h].at = "total"
    /\ call[h].pc = "returned"
    /\ post' = [post EXCEPT ![h] =
                  IF call[h].ok
                  THEN [@ EXCEPT !.at = "route", !.total_headers = call[h].headers]
                  ELSE Respond429([@ EXCEPT !.total_headers = call[h].headers],
                                  call[h].retry_after, call[h].headers)]
    /\ call' = [call EXCEPT ![h] = NoCall]
    /\ UNCHANGED <<clock, env, usage_day, usage_minute, writer, conn, arrivals, tally>>

\* the preference list of the request's path
Preferred(path) == IF path = PathGemini THEN env.markcraft ELSE env.flashcraft

\* lines 270-280 and 290-292, 309-310: a named model is checked against the allow-list
\* and evaluated; otherwise _pick_model starts on the path's preference list
Route(h) ==
    /\ post[h].at = "route"
    /\ LET p == post[h]
           named == p.path = PathGemini /\ p.requested # ""
           refused == named /\ p.requested \notin AllowedModels
           limits == ModelLimits(p.requested)
       IN /\ post' = [post EXCEPT ![h] =
                        IF refused THEN [@ EXCEPT !.at = "done", !.status = 400]
                        ELSE IF named THEN [@ EXCEPT !.at = "requested", !.model = p.requested]
                        ELSE [@ EXCEPT !.at = "pick", !.preferred = Preferred(p.path),
                                       !.idx = 1, !.last_headers = NoHeaders,
                                       !.max_retry_after = 0]]
          /\ call' = [call EXCEPT ![h] =
                        IF named /\ ~refused
                        THEN Invoke(ModelScope(p.requested), limits[1], limits[2])
                        ELSE NoCall]
    /\ UNCHANGED <<clock, env, usage_day, usage_minute, writer, conn, arrivals, tally>>

\* (mutant) the named model is forwarded whatever its evaluation returned
RequestedReturn_Forwards(h) ==
    /\ post[h].at = "requested"
    /\ call[h].pc = "returned"
    /\ post' = [post EXCEPT ![h] =
                  [@ EXCEPT !.at = "upstream", !.rl_headers = call[h].headers]]
    /\ call' = [call EXCEPT ![h] = NoCall]
    /\ UNCHANGED <<clock, env, usage_day, usage_minute, writer, conn, arrivals, tally>>

\* lines 281-289: the evaluation of the named model returned
RequestedReturn(h) ==
    /\ post[h].at = "requested"
    /\ call[h].pc = "returned"
    /\ post' = [post EXCEPT ![h] =
                  IF call[h].ok
                  THEN [@ EXCEPT !.at = "upstream", !.rl_headers = call[h].headers]
                  ELSE Respond429([@ EXCEPT !.rl_headers = call[h].headers],
                                  call[h].retry_after,
                                  Merge(post[h].total_headers, call[h].headers))]
    /\ call' = [call EXCEPT ![h] = NoCall]
    /\ UNCHANGED <<clock, env, usage_day, usage_minute, writer, conn, arrivals, tally>>

\* (mutant) the fallback to 60 is missing
PickRetry_Zero(max_retry_after) == max_retry_after

\* max_retry_after or 60
PickRetry(max_retry_after) ==
    IF max_retry_after = 0 THEN DefaultPickRetry ELSE max_retry_after

\* (mutant) every candidate of the list is evaluated, allow-listed or not
Skipped_Never(model) == FALSE

\* lines 199-200: if model not in allowed: continue
Skipped(model) == model \notin AllowedModels

\* (mutant) each candidate is charged to the site-total scope
CandidateCall_Total(model) == Invoke(SiteTotal, env.total_rpd, env.total_rpm)

\* lines 201-202: the candidate's limits and the evaluation of its own scope
CandidateCall(model) ==
    Invoke(ModelScope(model), ModelLimits(model)[1], ModelLimits(model)[2])

\* (mutant) the retry_after of the last candidate replaces the ones seen before
MaxRetry_Last(max_retry_after, retry_after) == retry_after

\* line 204: max(max_retry_after, retry_after)
MaxRetry(max_retry_after, retry_after) == Max(max_retry_after, retry_after)

\* lines 198-202 and 207: one turn of the loop of _pick_model up to the evaluation of a
\* candidate, or the end of the list (return None, last_headers, max_retry_after or 60,
\* which do_POST answers with 429, lines 293-301 and 311-319)
PickNext(h) ==
    /\ post[h].at = "pick"
    /\ LET p == post[h]
           ended == p.idx > Len(p.preferred)
           model == p.preferred[p.idx]
           skipped == ~ended /\ Skipped(model)
       IN /\ post' = [post EXCEPT ![h] =
                        IF ended
                        THEN Respond429([@ EXCEPT !.model = None,
                                                  !.rl_headers = p.last_headers],
                                        PickRetry(p.max_retry_after),
                                        Merge(p.total_headers, OrEmpty(p.last_headers)))
                        ELSE IF skipped THEN [@ EXCEPT !.idx = p.idx + 1]
                        ELSE [@ EXCEPT !.at = "pick_call"]]
          /\ call' = [call EXCEPT ![h] =
                        IF ~ended /\ ~skipped
                        THEN CandidateCall(model)
                        ELSE NoCall]
    /\ UNCHANGED <<clock, env, usage_day, usage_minute, writer, conn, arrivals, tally>>

\* lines 203-206: the evaluation of a candidate returned; on admission _pick_model
\* returns (model, headers, 0) and do_POST builds the payload (lines 303-307, 321-351:
\* the deck path answers 400 when sourceText is empty)
PickReturn(h) ==
    /\ post[h].at = "pick_call"
    /\ call[h].pc = "returned"
    /\ LET p == post[h]
           seen == [p EXCEPT !.last_headers = call[h].headers,
                             !.max_retry_after = MaxRetry(p.max_retry_after,
                                                          call[h].retry_after)]
       IN post' = [post EXCEPT ![h] =
                     IF call[h].ok
                     THEN IF p.path = PathDeck /\ ~p.has_source
                          THEN [seen EXCEPT !.at = "done", !.status = 400,
                                            !.model = p.preferred[p.idx],
                                            !.rl_headers = call[h].headers]
                          ELSE [seen EXCEPT !.at = "upstream",
                                            !.model = p.preferred[p.idx],
                                            !.rl_headers = call[h].headers]
                     ELSE [seen EXCEPT !.at = "pick", !.idx = p.idx + 1]]
    /\ call' = [call EXCEPT ![h] = NoCall]
    /\ UNCHANGED <<clock, env, usage_day, usage_minute, writer, conn, arrivals, tally>>

\* lines 353-399: the request is forwarded for post[h].model and the answer relayed
\* with the merged rate-limit headers; a deck answered 2xx is returned by
\* _json_response (lines 376-389), which sends no rate-limit header
Upstream(h, status) ==
    /\ post[h].at = "upstream"
    /\ post' = [post EXCEPT ![h] =
                  [@ EXCEPT !.at = "done", !.status = status,
                            !.sent = IF post[h].path = PathDeck /\ status >= 200
                                          /\ status < 300
                                     THEN EmptyDict
                                     ELSE Merge(post[h].total_headers,
                                                post[h].rl_headers)]]
    /\ UNCHANGED <<clock, env, usage_day, usage_minute, writer, conn, call, arrivals, tally>>

\* (mutant) the exception is swallowed and the request goes on as if it were allowed
Crash_FailsOpen(h) ==
    /\ call[h].pc = "raised"
    /\ post' = [post EXCEPT ![h] = [@ EXCEPT !.at = "upstream"]]
    /\ call' = [call EXCEPT ![h] = NoCall]
    /\ UNCHANGED <<clock, env, usage_day, usage_minute, writer, conn, arrivals, tally>>

\* an exception of _consume_limit is caught nowhere in do_POST: the handler ends
\* without an answer
Crash(h) ==
    /\ call[h].pc = "raised"
    /\ post' = [post EXCEPT ![h] = [@ EXCEPT !.at = "crashed"]]
    /\ call' = [call EXCEPT ![h] = NoCall]
    /\ UNCHANGED <<clock, env, usage_day, usage_minute, writer, conn, arrivals, tally>>

\* the handler thread of an answered (or failed) request ends
Finish(h) ==
    /\ post[h].at \in {"done", "crashed"}
    /\ post' = [post EXCEPT ![h] = IdlePost]
    /\ UNCHANGED <<clock, env, usage_day, usage_minute, writer, conn, call, arrivals, tally>>

\* the steps of _consume_limit that never wait
Evaluate(h) ==
    \/ ReadNow(h)
    \/ ReadMinute(h)
    \/ GetDb(h)
    \/ Prune(h)
    \/ ReadDayCount(h)
    \/ ReadMinuteCount(h)
    \/ Decide(h)
    \/ Deny(h)
    \/ InsertDay(h)
    \/ InsertMinute(h)
    \/ Commit(h)
    \/ ReturnAllowed(h)

-----------------------------------------------------------------------------
(* Initial states *)

\* the ledger a server finds when each model of `used` was admitted once at the first
\* instant (and the site-total scope charged with them when it is capped)
UsedKeys(bucket, used, capped) ==
    {<<bucket, ModelScope(m)>> : m \in used}
        \cup (IF capped /\ used # {} THEN {<<bucket, SiteTotal>>} ELSE {})

UsedTable(bucket, used, capped) ==
    [k \in UsedKeys(bucket, used, capped) |->
        IF k[2] = SiteTotal THEN Cardinality(used) ELSE 1]

\* the server starts with environment e on the ledger left by the admissions of `used`
Start(e, used) ==
    /\ clock = StartClock
    /\ env = e
    /\ usage_day = UsedTable(DayOf(StartClock), used, e.total_rpd > 0 \/ e.total_rpm > 0)
    /\ usage_minute = UsedTable(MinuteOf(StartClock), used, e.total_rpd > 0 \/ e.total_rpm > 0)
    /\ writer = 0
    /\ conn = [h \in Handlers |-> NoConn]
    /\ call = [h \in Handlers |-> NoCall]
    /\ post = [h \in Handlers |-> IdlePost]
    /\ arrivals = 0
    /\ tally = [k \in {<<q[2], DayOf(StartClock), MinuteOf(StartClock), "allowed">> :
                           q \in DOMAIN usage_day} |-> usage_day[<<k[2], k[1]>>]]

Environment(allowed, markcraft, flashcraft, limits, total_rpd, total_rpm) ==
    [allowed |-> allowed, markcraft |-> markcraft, flashcraft |-> flashcraft,
     limits |-> limits, total_rpd |-> total_rpd, total_rpm |-> total_rpm]

DefaultPreferred == <<Flash, FlashLite, Flash3>>

-----------------------------------------------------------------------------
(* Spec: requests of every kind, two in flight at a time                       *)

SpecThreads == {1, 2}

\* GEMINI_MODEL_LIMITS_JSON of Spec
SpecLimits == (Flash :> <<1, 0>>) @@ (FlashLite :> <<0, 1>>) @@ (Flash3 :> <<1, 1>>)

\* SITE_TOTAL_RPD_LIMIT, SITE_TOTAL_RPM_LIMIT and the models admitted before the start
SpecStarts ==
    {<<0, 0, {}>>, <<0, 0, {Flash, FlashLite}>>, <<1, 0, {Flash}>>,
     <<4, 0, {Flash, FlashLite, Flash3}>>}

Init ==
    \E s \in SpecStarts :
        Start(Environment({Flash, FlashLite, Flash3}, DefaultPreferred,
                          <<Gemma, Flash3, FlashLite>>, SpecLimits, s[1], s[2]), s[3])

\* the requests of Spec: path, body.model, whether body.sourceText is non-empty
SpecRequests ==
    {<<PathGemini, "", FALSE>>, <<PathGemini, Flash3, FALSE>>, <<PathGemini, Gemma, FALSE>>,
     <<PathDeck, "", FALSE>>}

SpecTicks == {30}

Next ==
    \/ \E h \in Handlers, r \in SpecRequests :
          DoPost(h, SpecThreads, MaxRequests, r[1], r[2], r[3])
    \/ \E h \in Handlers : TotalReturn(h)
    \/ \E h \in Handlers : Route(h)
    \/ \E h \in Handlers : Evaluate(h)
    \/ \E h \in Handlers : PruneLocked(h)
    \/ \E h \in Handlers : RequestedReturn(h)
    \/ \E h \in Handlers : PickNext(h)
    \/ \E h \in Handlers : PickReturn(h)
    \/ \E h \in Handlers : Crash(h)
    \/ \E h \in Handlers : Upstream(h, 200)
    \/ \E h \in Handlers : Finish(h)
    \/ \E d \in SpecTicks : Tick(d, MaxElapsed)

Spec == Init /\ [][Next]_vars

-----------------------------------------------------------------------------
(* SpecBurst: up to BurstRequests concurrent requests naming one model whose   *)
(* daily limit is N and whose minute limit is off                              *)

BurstLimits == {1, 2}

InitBurst ==
    \E n \in BurstLimits :
        Start(Environment({Flash}, DefaultPreferred, DefaultPreferred,
                          Flash :> <<n, 0>>, 0, 0), {})

BurstTicks == {30}

NextBurst ==
    \/ \E h \in Handlers : DoPost(h, Handlers, BurstRequests, PathGemini, Flash, FALSE)
    \/ \E h \in Handlers : Route(h)
    \/ \E h \in Handlers : Evaluate(h)
    \/ \E h \in Handlers : PruneLocked(h)
    \/ \E h \in Handlers : RequestedReturn(h)
    \/ \E h \in Handlers : Crash(h)
    \/ \E h \in Handlers : Upstream(h, 200)
    \/ \E h \in Handlers : Finish(h)
    \/ \E d \in BurstTicks : Tick(d, BurstElapsed)

SpecBurst == InitBurst /\ [][NextBurst]_vars

-----------------------------------------------------------------------------
(* SpecSeq: sequential requests naming one model, over minutes and a midnight  *)

SeqThreads == {1}

\* the (rpd, rpm) overrides of SpecSeq
SeqLimits == {<<1, 0>>, <<2, 1>>, <<2, 2>>, <<0, 1>>, <<3, 2>>, <<0, 0>>}

InitSeq ==
    \E l \in SeqLimits :
        Start(Environment({Flash}, DefaultPreferred, DefaultPreferred, Flash :> l, 0, 0), {})

SeqTicks == {30}

\* the shortest pause that makes a minute bucket older than the ones pruning keeps
LongPause == (KeepMinutes + 1) * SecondsPerMinute

NextSeq ==
    \/ \E h \in Handlers : DoPost(h, SeqThreads, SeqRequests, PathGemini, Flash, FALSE)
    \/ \E h \in Handlers : Route(h)
    \/ \E h \in Handlers : Evaluate(h)
    \/ \E h \in Handlers : RequestedReturn(h)
    \/ \E h \in Handlers : Upstream(h, 200)
    \/ \E h \in Handlers : Finish(h)
    \/ \E d \in SeqTicks : Tick(d, SeqElapsed)
    \/ Tick(LongPause, SeqElapsed + LongPause)

SpecSeq == InitSeq /\ [][NextSeq]_vars

-----------------------------------------------------------------------------
(* SpecScenario: sequential requests naming gemini-2.5-flash under the built-in *)
(* limits (20 a day, 5 a minute), on an empty ledger                            *)

InitScenario ==
    Start(Environment({Flash}, DefaultPreferred, DefaultPreferred, EmptyDict, 0, 0), {})

ScenarioTicks == {30}

NextScenario ==
    \/ \E h \in Handlers : DoPost(h, SeqThreads, ScenarioRequests, PathGemini, Flash, FALSE)
    \/ \E h \in Handlers : Route(h)
    \/ \E h \in Handlers : Evaluate(h)
    \/ \E h \in Handlers : RequestedReturn(h)
    \/ \E h \in Handlers : Upstream(h, 200)
    \/ \E h \in Handlers : Finish(h)
    \/ \E d \in ScenarioTicks : Tick(d, ScenarioElapsed)

SpecScenario == InitScenario /\ [][NextScenario]_vars

-----------------------------------------------------------------------------
(* SpecFault: the ledger may fail at any statement                             *)

FaultRequests == 2

FaultElapsed == 30

FaultThreads == {1, 2}

\* SITE_TOTAL_RPD_LIMIT = 3 with one unit used by an earlier admission of Flash
InitFault ==
    Start(Environment({Flash, FlashLite, Flash3}, DefaultPreferred, DefaultPreferred,
                      SpecLimits, 3, 0), {Flash})

\* the requests of SpecFault: path, body.model, whether body.sourceText is non-empty
FaultPosts == {<<PathGemini, "", FALSE>>, <<PathGemini, Flash3, FALSE>>}

FaultTicks == {30}

NextFault ==
    \/ \E h \in Handlers, r \in FaultPosts :
          DoPost(h, FaultThreads, FaultRequests, r[1], r[2], r[3])
    \/ \E h \in Handlers : TotalReturn(h)
    \/ \E h \in Handlers : Route(h)
    \/ \E h \in Handlers : Evaluate(h)
    \/ \E h \in Handlers : PruneLocked(h)
    \/ \E h \in Handlers : GetDbFails(h)
    \/ \E h \in Handlers : QueryFails(h)
    \/ \E h \in Handlers : RequestedReturn(h)
    \/ \E h \in Handlers : PickNext(h)
    \/ \E h \in Handlers : PickReturn(h)
    \/ \E h \in Handlers : Crash(h)
    \/ \E h \in Handlers : Upstream(h, 200)
    \/ \E h \in Handlers : Finish(h)
    \/ \E d \in FaultTicks : Tick(d, FaultElapsed)

SpecFault == InitFault /\ [][NextFault]_vars

-----------------------------------------------------------------------------
(* SpecPrune: two handlers over the ten minutes that pruning keeps              *)

PruneRequests == 3

PruneElapsed == 60

PruneThreads == {1, 2}

\* one admission a minute and no daily limit, on the ledger left by one admission
InitPrune ==
    Start(Environment({Flash}, DefaultPreferred, DefaultPreferred, Flash :> <<0, 1>>, 0, 0),
          {Flash})

\* the longest pause after which pruning keeps a minute bucket
KeepPause == KeepMinutes * SecondsPerMinute

PruneTicks == {SecondsPerMinute}

NextPrune ==
    \/ \E h \in Handlers : DoPost(h, PruneThreads, PruneRequests, PathGemini, Flash, FALSE)
    \/ \E h \in Handlers : Route(h)
    \/ \E h \in Handlers : Evaluate(h)
    \/ \E h \in Handlers : PruneLocked(h)
    \/ \E h \in Handlers : RequestedReturn(h)
    \/ \E h \in Handlers : Crash(h)
    \/ \E h \in Handlers : Upstream(h, 200)
    \/ \E h \in Handlers : Finish(h)
    \/ \E d \in PruneTicks : Tick(d, PruneElapsed)
    \/ Tick(KeepPause, PruneElapsed + KeepPause)

SpecPrune == InitPrune /\ [][NextPrune]_vars

-----------------------------------------------------------------------------
(* SpecNone: preference lists with no candidate to admit                        *)

NoneRequests == 2

NoneElapsed == 30

NoneThreads == {1, 2}

\* GEMINI_FLASHCRAFT_MODELS: empty, or one candidate outside the allow-list and one whose
\* daily quota is used up
NoneLists == {<<>>, <<Gemma, Flash>>}

\* SITE_TOTAL_RPD_LIMIT and SITE_TOTAL_RPM_LIMIT
NoneCaps == {<<0, 0>>, <<3, 0>>}

\* GEMINI_ALLOWED_MODELS = gemini-2.5-flash, GEMINI_MARKCRAFT_MODELS names no allowed
\* model, and gemini-2.5-flash (1 a day) was admitted once before the start
InitNone ==
    \E l \in NoneLists, s \in NoneCaps :
        Start(Environment({Flash}, <<Gemma, FlashLite>>, l, Flash :> <<1, 0>>, s[1], s[2]),
              {Flash})

\* the requests of SpecNone: path, body.model, whether body.sourceText is non-empty
NonePosts == {<<PathGemini, "", FALSE>>, <<PathDeck, "", TRUE>>}

NoneTicks == {30}

NextNone ==
    \/ \E h \in Handlers, r \in NonePosts :
          DoPost(h, NoneThreads, NoneRequests, r[1], r[2], r[3])
    \/ \E h \in Handlers : TotalReturn(h)
    \/ \E h \in Handlers : Route(h)
    \/ \E h \in Handlers : Evaluate(h)
    \/ \E h \in Handlers : PruneLocked(h)
    \/ \E h \in Handlers : PickNext(h)
    \/ \E h \in Handlers : PickReturn(h)
    \/ \E h \in Handlers : Crash(h)
    \/ \E h \in Handlers : Finish(h)
    \/ \E d \in NoneTicks : Tick(d, NoneElapsed)

SpecNone == InitNone /\ [][NextNone]_vars

-----------------------------------------------------------------------------
(* Observations used by the properties *)

\* executions on `scope` that read `day` and ended with `outcome`
EndedInDay(scope, day, outcome) ==
    SumOf(tally, {k \in DOMAIN tally : k[1] = scope /\ k[2] = day /\ k[4] = outcome})

\* executions on `scope` that read `minute` and ended with `outcome`
EndedInMinute(scope, minute, outcome) ==
    SumOf(tally, {k \in DOMAIN tally : k[1] = scope /\ k[3] = minute /\ k[4] = outcome})

\* executions on `scope` that committed their unit for `day` and have not returned yet
Committing(scope, day) ==
    Cardinality({h \in Handlers : call[h].pc = "return_ok" /\ call[h].scope = scope
                                  /\ call[h].day = day})

-----------------------------------------------------------------------------
(* C1 *)

BurstScope == ModelScope(Flash)
BurstDay == DayOf(StartClock)
BurstAllowed == EndedInDay(BurstScope, BurstDay, "allowed")
BurstDenied == EndedInDay(BurstScope, BurstDay, "denied")
BurstErrors == EndedInDay(BurstScope, BurstDay, "error")

\* C1 as stated: once K > N concurrent executions of _consume_limit on a fresh scope
\* with daily limit N have all ended, exactly N returned allowed and exactly K - N
\* returned denied, whatever the interleaving.
C1_ExactSplit ==
    LET N == ModelLimits(Flash)[1]
    IN (BurstAllowed + BurstDenied + BurstErrors = BurstRequests /\ BurstRequests > N)
          => (BurstAllowed = N /\ BurstDenied = BurstRequests - N)

\* C1 as amended: the executions are serialized by the write lock the DELETE takes.
\* Admissions never exceed N, the day counter equals the admissions and never exceeds
\* N, an execution is denied only once N units are committed, and when all K have
\* ended, E of them with sqlite3.OperationalError (lock wait timed out), exactly
\* min(N, K - E) returned allowed and the other K - E returned denied.
C1_SerializedAdmissions ==
    LET N == ModelLimits(Flash)[1]
        committed == BurstAllowed + Committing(BurstScope, BurstDay)
    IN /\ committed <= N
       /\ Count(usage_day, <<BurstDay, BurstScope>>) = committed
       /\ (BurstDenied > 0 => committed = N)
       /\ (BurstAllowed + BurstDenied + BurstErrors = BurstRequests
              => /\ BurstAllowed = Min(N, BurstRequests - BurstErrors)
                 /\ BurstDenied = BurstRequests - BurstErrors - BurstAllowed)

\* three overlapping requests on a scope with daily limit 2 have all ended: two were
\* allowed and one denied
C1_Witness ==
    /\ ModelLimits(Flash)[1] = 2
    /\ \A h \in Handlers : post[h].at = "done" /\ Len(post[h].evals) = 1
    /\ BurstAllowed = 2
    /\ BurstDenied = 1

-----------------------------------------------------------------------------
(* C2, C3, C4, C8, C9: sequential attempts on one scope *)

\* the execution of h has returned and its caller has not taken the result yet
Returned(h) == call[h].pc = "returned"

\* attempts on the scope of h's execution in the day (minute) it read, itself included
AttemptsInDay(h) ==
    EndedInDay(call[h].scope, call[h].day, "allowed")
        + EndedInDay(call[h].scope, call[h].day, "denied")

AttemptsInMinute(h) ==
    EndedInMinute(call[h].scope, call[h].minute, "allowed")
        + EndedInMinute(call[h].scope, call[h].minute, "denied")

\* admissions on the scope in that day (minute) before h's execution
AdmittedInDayBefore(h) ==
    EndedInDay(call[h].scope, call[h].day, "allowed") - (IF call[h].ok THEN 1 ELSE 0)

AdmittedInMinuteBefore(h) ==
    EndedInMinute(call[h].scope, call[h].minute, "allowed") - (IF call[h].ok THEN 1 ELSE 0)

\* C2 as stated: with daily_limit = N > 0, of the sequential attempts on a scope within
\* one UTC day exactly the first N are allowed, and attempt N + 1 is denied with
\* retry_after >= 60, for every limit pair.
C2_FirstNAllowed ==
    \A h \in Handlers :
        (Returned(h) /\ call[h].rpd_limit > 0)
            => /\ (AttemptsInDay(h) <= call[h].rpd_limit => call[h].ok)
               /\ (AttemptsInDay(h) = call[h].rpd_limit + 1
                      => ~call[h].ok /\ call[h].retry_after >= 60)

\* C2 as amended: with daily_limit = N > 0, within one UTC day an attempt made before
\* N were admitted is allowed unless the minute limit denies it; every attempt made
\* once N were admitted is denied with retry_after >= 60, so the day counter never
\* passes N; and when the minute limit is off, exactly the first N attempts are
\* allowed and attempt N + 1 is denied with retry_after >= 60.
C2_DailyLimit ==
    \A h \in Handlers :
        (Returned(h) /\ call[h].rpd_limit > 0)
            => LET N == call[h].rpd_limit
                   M == call[h].rpm_limit
               IN /\ (AdmittedInDayBefore(h) >= N
                         => ~call[h].ok /\ call[h].retry_after >= 60)
                  /\ ((AdmittedInDayBefore(h) < N
                          /\ (M = 0 \/ AdmittedInMinuteBefore(h) < M)) => call[h].ok)
                  /\ Count(usage_day, <<call[h].day, call[h].scope>>) <= N
                  /\ (M = 0 => /\ (AttemptsInDay(h) <= N => call[h].ok)
                               /\ (AttemptsInDay(h) = N + 1
                                      => ~call[h].ok /\ call[h].retry_after >= 60))

\* the third attempt of a day on a scope with daily limit 2 is denied, after two
\* admissions, with a retry_after of at least 60
C2_Witness ==
    \E h \in Handlers :
        /\ Returned(h)
        /\ call[h].rpd_limit = 2
        /\ AttemptsInDay(h) = 3
        /\ AdmittedInDayBefore(h) = 2
        /\ ~call[h].ok
        /\ call[h].retry_after >= 60

\* C3 as stated: with minute_limit = M > 0, at most M attempts are allowed within one
\* minute bucket, and attempt M + 1 of the bucket is denied with 1 <= retry_after <= 60,
\* for every scope.
C3_MinuteWindow ==
    \A h \in Handlers :
        (Returned(h) /\ call[h].rpm_limit > 0)
            => /\ EndedInMinute(call[h].scope, call[h].minute, "allowed") <= call[h].rpm_limit
               /\ (AttemptsInMinute(h) = call[h].rpm_limit + 1
                      => /\ ~call[h].ok
                         /\ call[h].retry_after >= 1
                         /\ call[h].retry_after <= 60)

\* C3 as amended: with minute_limit = M > 0, at most M attempts are allowed within one
\* minute bucket; an attempt made once M were admitted in the bucket is denied, with
\* 1 <= retry_after <= 60 when the daily limit is not reached (daily_limit = 0 or fewer
\* admissions that day), and with the daily denial's retry_after >= 60 when it is.
C3_MinuteLimit ==
    \A h \in Handlers :
        (Returned(h) /\ call[h].rpm_limit > 0)
            => LET N == call[h].rpd_limit
                   M == call[h].rpm_limit
                   daily == N > 0 /\ AdmittedInDayBefore(h) >= N
               IN /\ EndedInMinute(call[h].scope, call[h].minute, "allowed") <= M
                  /\ Count(usage_minute, <<call[h].minute, call[h].scope>>) <= M
                  /\ (AdmittedInMinuteBefore(h) >= M => ~call[h].ok)
                  /\ ((AdmittedInMinuteBefore(h) >= M /\ ~daily)
                         => call[h].retry_after >= 1 /\ call[h].retry_after <= 60)
                  /\ ((AdmittedInMinuteBefore(h) >= M /\ daily)
                         => call[h].retry_after >= 60)

\* the third attempt of a minute on a scope with limits (3 a day, 2 a minute) is
\* denied, after two admissions, with 1 <= retry_after <= 60
C3_Witness ==
    \E h \in Handlers :
        /\ Returned(h)
        /\ call[h].rpd_limit = 3
        /\ call[h].rpm_limit = 2
        /\ AttemptsInMinute(h) = 3
        /\ AdmittedInMinuteBefore(h) = 2
        /\ ~call[h].ok
        /\ call[h].retry_after >= 1
        /\ call[h].retry_after <= 60

\* C4: a denied evaluation leaves every day counter and every minute counter as it
\* was: the step that returns the denial changes neither table, and the tables change
\* only in the commit of an evaluation that decided to allow.
C4_DeniedChangesNothing ==
    [][/\ \A h \in Handlers :
             (call[h].pc = "deny" /\ call'[h].pc = "returned")
                 => (usage_day' = usage_day /\ usage_minute' = usage_minute)
       /\ (usage_day' # usage_day \/ usage_minute' # usage_minute)
             => \E h \in Handlers :
                   call[h].pc = "commit" /\ call[h].allowed /\ call'[h].pc = "return_ok"]_vars

\* a denial has just been returned by an evaluation whose transaction had pruned a
\* stale minute bucket: the bucket is still in the table
C4_Witness ==
    \E h \in Handlers :
        /\ Returned(h)
        /\ ~call[h].ok
        /\ \E k \in DOMAIN usage_minute : k[1] < call[h].minute - KeepMinutes

\* C8: when a scope reached its minute limit in minute bucket T and its daily limit is
\* not reached, the first attempt made in bucket T + 1 is allowed.
C8_MinuteRollover ==
    \A h \in Handlers :
        (/\ Returned(h)
         /\ call[h].rpm_limit > 0
         /\ EndedInMinute(call[h].scope, call[h].minute - 1, "allowed") >= call[h].rpm_limit
         /\ AttemptsInMinute(h) = 1
         /\ (call[h].rpd_limit = 0 \/ AdmittedInDayBefore(h) < call[h].rpd_limit))
            => call[h].ok

\* an attempt was denied by the minute limit in bucket T and the next one, in bucket
\* T + 1, is allowed
C8_Witness ==
    \E h \in Handlers :
        /\ Returned(h)
        /\ call[h].ok
        /\ call[h].rpm_limit > 0
        /\ AttemptsInMinute(h) = 1
        /\ EndedInMinute(call[h].scope, call[h].minute - 1, "allowed") = call[h].rpm_limit
        /\ EndedInMinute(call[h].scope, call[h].minute - 1, "denied") > 0

\* C9: the used counts of the diagnostics are the counts after the increment when the
\* evaluation allows and the counts read when it denies. Under the limits (20, 5) on
\* an empty ledger, attempt k of a minute, k = 1..5, is allowed and reports
\* X-RateLimit-RPM-Used = k; every later attempt of the minute is denied, reports
\* X-RateLimit-RPM-Used = 5 and has 1 <= retry_after <= 60.
C9_UsedCounts ==
    \A h \in Handlers :
        Returned(h)
            => LET k == AttemptsInMinute(h)
                   used == call[h].headers["X-RateLimit-RPM-Used"]
               IN /\ call[h].rpd_limit = 20
                  /\ call[h].rpm_limit = 5
                  /\ (k <= 5 => call[h].ok /\ used = <<"1", "2", "3", "4", "5">>[k])
                  /\ (k >= 6 => /\ ~call[h].ok
                                /\ used = "5"
                                /\ call[h].retry_after >= 1
                                /\ call[h].retry_after <= 60)
                  /\ call[h].headers["X-RateLimit-RPD-Used"]
                        = Str(Count(usage_day, <<call[h].day, call[h].scope>>))
                  /\ used = Str(Count(usage_minute, <<call[h].minute, call[h].scope>>))

\* the sixth attempt of a minute is denied and reports five used
C9_Witness ==
    \E h \in Handlers :
        /\ Returned(h)
        /\ AttemptsInMinute(h) = 6
        /\ ~call[h].ok
        /\ call[h].headers["X-RateLimit-RPM-Used"] = "5"
        /\ call[h].headers["X-RateLimit-RPD-Used"] = "5"
        /\ call[h].retry_after = 30

-----------------------------------------------------------------------------
(* C5, C6, C7, C10: the site-total cap and the fallback over candidates *)

\* the request of h began with an evaluation of the site-total scope that has ended
TotalEnded(h) == Len(post[h].evals) >= 1 /\ post[h].evals[1].scope = SiteTotal

\* the evaluations _pick_model made for the request of h, in order
PickEvals(h) ==
    IF TotalEnded(h) THEN SubSeq(post[h].evals, 2, Len(post[h].evals)) ELSE post[h].evals

\* the scopes of the allow-listed candidates among the first n of the preference list
Attempted(h, n) ==
    LET tried == SelectSeq(SubSeq(post[h].preferred, 1, n),
                           LAMBDA m : m \in AllowedModels)
    IN [i \in 1..Len(tried) |-> ModelScope(tried[i])]

\* the largest retry_after among the evaluations, 0 when there is none
RECURSIVE MaxRetryOf(_)
MaxRetryOf(evals) ==
    IF evals = <<>> THEN 0
    ELSE Max(Head(evals).retry_after, MaxRetryOf(Tail(evals)))

\* C5: when the site-total scope is at its limit, the request is denied with 429
\* before any model scope is evaluated: the request makes no other evaluation (so it
\* charges no model), carries no model, never reaches the upstream call, and is
\* answered with the Retry-After of the site-total denial, whatever quota the models
\* have left.
C5_TotalGatesFirst ==
    \A h \in Handlers :
        /\ (/\ Returned(h)
            /\ call[h].scope = SiteTotal
            /\ call[h].rpd_limit > 0
            /\ call[h].day_count >= call[h].rpd_limit) => ~call[h].ok
        /\ (TotalEnded(h) /\ post[h].evals[1].outcome = "denied")
              => /\ Len(post[h].evals) = 1
                 /\ post[h].at \in {"total", "done"}
                 /\ post[h].model = None
                 /\ post[h].preferred = <<>>
                 /\ call[h].pc # "none" => call[h].scope = SiteTotal
                 /\ post[h].at = "done"
                       => /\ post[h].status = 429
                          /\ call[h].pc = "none"
                          /\ post[h].retry_after = post[h].evals[1].retry_after
                          /\ post[h].sent = post[h].evals[1].headers

\* a request was answered 429 on the site-total denial alone while a model it could
\* have used has its whole quota left
C5_Witness ==
    \E h \in Handlers :
        /\ post[h].at = "done"
        /\ post[h].status = 429
        /\ post[h].path = PathGemini
        /\ post[h].requested = ""
        /\ post[h].evals # <<>>
        /\ post[h].evals[1].scope = SiteTotal
        /\ post[h].evals[1].outcome = "denied"
        /\ post[h].sent["X-RateLimit-Scope"] = SiteTotal
        /\ FlashLite \in AllowedModels
        /\ Count(usage_day, <<DayOf(clock), ModelScope(FlashLite)>>) = 0
        /\ Count(usage_minute, <<MinuteOf(clock), ModelScope(FlashLite)>>) = 0

\* C6: when _pick_model returns a model, it is the candidate at the position the loop
\* stopped at and it is allow-listed; the evaluations made are those of the allow-listed
\* candidates up to that position, in the order of the list, each earlier one denied and
\* the last one allowed (nothing after the first admission is evaluated); and the
\* diagnostics returned carry the scope of the model chosen.
C6_FirstAdmitted ==
    \A h \in Handlers :
        (/\ post[h].at \in {"upstream", "done"}
         /\ post[h].preferred # <<>>
         /\ post[h].model # None)
            => LET p == post[h]
                   evals == PickEvals(h)
                   n == Len(evals)
               IN /\ p.idx \in 1..Len(p.preferred)
                  /\ p.model = p.preferred[p.idx]
                  /\ p.model \in AllowedModels
                  /\ n >= 1
                  /\ [i \in 1..n |-> evals[i].scope] = Attempted(h, p.idx)
                  /\ \A i \in 1..(n - 1) : evals[i].outcome = "denied"
                  /\ evals[n].outcome = "allowed"
                  /\ p.rl_headers = evals[n].headers
                  /\ p.rl_headers["X-RateLimit-Scope"] = ModelScope(p.model)
                  /\ call[h].pc = "none"

\* the first two candidates were denied and the third, admitted, is the model returned
C6_Witness ==
    \E h \in Handlers :
        /\ post[h].at = "upstream"
        /\ post[h].preferred = <<Flash, FlashLite, Flash3>>
        /\ post[h].model = Flash3
        /\ Len(PickEvals(h)) = 3
        /\ PickEvals(h)[1].outcome = "denied"
        /\ PickEvals(h)[2].outcome = "denied"
        /\ PickEvals(h)[3].outcome = "allowed"
        /\ post[h].rl_headers["X-RateLimit-Scope"] = ModelScope(Flash3)

\* C7: when every candidate attempted is denied, _pick_model returns no model, a
\* retry_after equal to the largest retry_after among the candidates attempted (60 when
\* none was attempted) and the diagnostics of the candidate attempted last.
C7_MaxRetryAfter ==
    \A h \in Handlers :
        (/\ post[h].at = "done"
         /\ post[h].preferred # <<>>
         /\ post[h].model = None)
            => LET p == post[h]
                   evals == PickEvals(h)
                   n == Len(evals)
               IN /\ p.status = 429
                  /\ \A i \in 1..n : evals[i].outcome = "denied"
                  /\ [i \in 1..n |-> evals[i].scope] = Attempted(h, Len(p.preferred))
                  /\ p.retry_after = IF n = 0 THEN DefaultPickRetry ELSE MaxRetryOf(evals)
                  /\ \A i \in 1..n : p.retry_after >= evals[i].retry_after
                  /\ n > 0 => p.rl_headers = evals[n].headers

\* both candidates attempted were denied, the first with a larger retry_after than the
\* last: the answer carries the first one's retry_after and the last one's diagnostics
C7_Witness ==
    \E h \in Handlers :
        /\ post[h].at = "done"
        /\ post[h].status = 429
        /\ post[h].preferred # <<>>
        /\ post[h].model = None
        /\ Len(PickEvals(h)) = 2
        /\ PickEvals(h)[1].retry_after > PickEvals(h)[2].retry_after
        /\ post[h].retry_after = PickEvals(h)[1].retry_after
        /\ post[h].rl_headers = PickEvals(h)[2].headers

\* the units of `scope` committed for `minute` by executions that have not returned yet
CommittingInMinute(scope, minute) ==
    Cardinality({h \in Handlers : call[h].pc = "return_ok" /\ call[h].scope = scope
                                  /\ call[h].minute = minute})

\* C10: the site-total scope is evaluated at most once per request, before anything
\* else, and its day and minute counters hold exactly one unit per request that passed
\* the site-total check, whatever number of candidates the request then tried and
\* whether or not one was admitted: nothing is refunded.
C10_TotalOncePerRequest ==
    /\ \A h \in Handlers :
          /\ \A i \in 2..Len(post[h].evals) : post[h].evals[i].scope # SiteTotal
          /\ (call[h].pc # "none" /\ call[h].scope = SiteTotal)
                => /\ post[h].at = "total"
                   /\ Len(post[h].evals) = IF call[h].pc \in {"returned", "raised"}
                                            THEN 1 ELSE 0
    /\ \A d \in {DayOf(StartClock), DayOf(clock)} :
          Count(usage_day, <<d, SiteTotal>>)
              = EndedInDay(SiteTotal, d, "allowed") + Committing(SiteTotal, d)
    /\ \A m \in {MinuteOf(StartClock), MinuteOf(clock)} :
          Count(usage_minute, <<m, SiteTotal>>)
              = EndedInMinute(SiteTotal, m, "allowed") + CommittingInMinute(SiteTotal, m)

\* a request passed the site-total check, had three candidates denied and was answered
\* 429: its unit stays on the site-total counter
C10_Witness ==
    \E h \in Handlers :
        /\ post[h].at = "done"
        /\ post[h].status = 429
        /\ TotalEnded(h)
        /\ post[h].evals[1].outcome = "allowed"
        /\ Len(post[h].evals) = 4
        /\ \A i \in 2..4 : post[h].evals[i].outcome = "denied"
        /\ Count(usage_day, <<DayOf(StartClock), SiteTotal>>) = 4
        /\ EndedInDay(SiteTotal, DayOf(StartClock), "allowed") = 4
-----------------------------------------------------------------------------
(* C11: what precedes the upstream call *)

\* the request of h is at the upstream call, or has been through it
Forwarded(h) ==
    \/ post[h].at = "upstream"
    \/ post[h].at = "done" /\ post[h].status \notin {400, 429}

\* the site-total cap is configured
Capped == env.total_rpd > 0 \/ env.total_rpm > 0

\* the last evaluation of the request allowed the model the request is forwarded for
\* and charged it, and the site-total evaluation, when configured, came first and allowed
AdmittedAndCharged(h) ==
    LET evals == post[h].evals
        n == Len(evals)
    IN /\ n >= 1
       /\ evals[n].outcome = "allowed"
       /\ post[h].model # None
       /\ evals[n].scope = ModelScope(post[h].model)
       /\ Count(usage_day, <<evals[n].day, evals[n].scope>>) >= 1
       /\ Count(usage_minute, <<evals[n].minute, evals[n].scope>>) >= 1
       /\ Capped => (n >= 2 /\ evals[1].scope = SiteTotal /\ evals[1].outcome = "allowed")
       /\ ~Capped => \A i \in 1..n : evals[i].scope # SiteTotal

\* C11: the upstream call is made only after an allow decision for the request's model
\* scope (and for the site-total scope, when configured) and only for the model admitted
\* and charged; a request whose gating ended in a denial (of the site-total scope, of
\* the named model, or of the last candidate tried) or in an exception never reaches
\* it: the only denials a forwarded request has seen are those of earlier candidates
\* that _pick_model fell back from.
C11_UpstreamAfterAllow ==
    \A h \in Handlers :
        /\ Forwarded(h)
              => /\ AdmittedAndCharged(h)
                 /\ call[h].pc = "none"
                 /\ \A i \in 1..Len(post[h].evals) :
                       post[h].evals[i].outcome # "allowed"
                           => /\ post[h].evals[i].outcome = "denied"
                              /\ post[h].requested = ""
                              /\ i < Len(post[h].evals)
                              /\ post[h].evals[i].scope \notin
                                    {SiteTotal, ModelScope(post[h].model)}
                              /\ \E j \in 1..(post[h].idx - 1) :
                                    post[h].evals[i].scope = ModelScope(post[h].preferred[j])
        /\ (post[h].at = "done" /\ post[h].status = 429)
              => /\ post[h].evals # <<>>
                 /\ post[h].evals[Len(post[h].evals)].outcome = "denied"

\* a request with a configured site-total cap is at the upstream call for the model
\* its evaluations admitted
C11_Witness ==
    \E h \in Handlers :
        /\ post[h].at = "upstream"
        /\ Capped
        /\ Len(post[h].evals) >= 2
        /\ post[h].evals[1].scope = SiteTotal
        /\ post[h].evals[1].outcome = "allowed"
        /\ post[h].evals[Len(post[h].evals)].outcome = "allowed"
        /\ post[h].evals[Len(post[h].evals)].scope = ModelScope(post[h].model)
-----------------------------------------------------------------------------
(* C12, C18: ledger failures and the write lock *)

\* where do_POST is while one of its evaluations runs
Evaluating == {"total", "requested", "pick_call"}

\* C12: an evaluation that could not open or query the ledger, or could not get its
\* lock, fails closed: it returns no allow decision, it is the last evaluation of its
\* request, the request never reaches the upstream call, and the counters hold the
\* units of the allowed evaluations only.
C12_FailsClosed ==
    /\ \A h \in Handlers :
          /\ call[h].pc = "raised"
                => /\ ~call[h].ok
                   /\ post[h].at \in Evaluating
                   /\ post[h].evals # <<>>
                   /\ post[h].evals[Len(post[h].evals)].outcome = "error"
          /\ \A i \in 1..Len(post[h].evals) :
                post[h].evals[i].outcome = "error"
                    => /\ i = Len(post[h].evals)
                       /\ post[h].evals[i].retry_after = 0
                       /\ \/ post[h].at = "crashed" /\ call[h].pc = "none"
                          \/ post[h].at \in Evaluating /\ call[h].pc = "raised"
                       /\ post[h].status = 0
                       /\ post[h].sent = EmptyDict
    /\ \A k \in DOMAIN usage_day :
          usage_day[k] = EndedInDay(k[2], k[1], "allowed") + Committing(k[2], k[1])
    /\ \A k \in DOMAIN usage_minute :
          usage_minute[k] = EndedInMinute(k[2], k[1], "allowed")
                                + CommittingInMinute(k[2], k[1])
    /\ \A k \in DOMAIN tally :
          k[4] = "allowed" => Count(usage_day, <<k[2], k[1]>>) >= tally[k]

\* a request passed the site-total check and then lost its model evaluation to a
\* ledger failure: it ends without an answer and the model's counter holds no unit of it
C12_Witness ==
    \E h \in Handlers :
        /\ post[h].at = "crashed"
        /\ Len(post[h].evals) = 2
        /\ post[h].evals[1].outcome = "allowed"
        /\ post[h].evals[2].outcome = "error"
        /\ post[h].evals[2].scope = ModelScope(Flash3)
        /\ Count(usage_day, <<DayOf(StartClock), ModelScope(Flash3)>>) = 0
        /\ Count(usage_day, <<DayOf(StartClock), SiteTotal>>) = 2

\* the statements of _consume_limit during which the connection holds the write lock
HoldsLock == {"read_day", "read_minute", "decide", "deny", "insert_day", "insert_minute",
              "commit"}

\* C18: the write lock an evaluation takes is released on every way out of
\* _consume_limit (allowed, denied, exception) and the connection is closed; a request
\* holds no lock and no connection outside its evaluations, in particular at the
\* upstream call, so the upstream call never keeps another evaluation waiting.
C18_LockReleased ==
    /\ writer \in Handlers \cup {0}
    /\ \A h \in Handlers :
          /\ writer = h <=> call[h].pc \in HoldsLock
          /\ conn[h].tx <=> call[h].pc \in HoldsLock
          /\ call[h].pc \in {"none", "now", "minute", "getdb", "returned", "raised"}
                => conn[h] = NoConn
          /\ post[h].at \notin Evaluating
                => /\ call[h].pc = "none"
                   /\ writer # h
                   /\ conn[h] = NoConn

\* one request is at the upstream call while the evaluation of another holds the lock
C18_Witness ==
    \E h \in Handlers, g \in Handlers :
        /\ h # g
        /\ post[h].at = "upstream"
        /\ writer = g
        /\ call[g].pc \in HoldsLock
-----------------------------------------------------------------------------
(* C13: the two counters of an admission *)

\* the scopes that have a row in one of the committed tables
LedgerScopes == {k[2] : k \in DOMAIN usage_day \cup DOMAIN usage_minute}

\* the units of `scope` in a committed table, over all its buckets
UnitsOf(table, scope) == SumOf(table, {k \in DOMAIN table : k[2] = scope})

\* C13: an allowed evaluation adds exactly 1 to the day counter and 1 to the minute
\* counter of its scope in one commit. The committed tables, which are all another
\* evaluation can read, never hold an admission's unit in one counter and not in the
\* other; each counter equals the number of admitted evaluations of its scope in its
\* bucket; and the tables change only by such a commit, both at once. (Runs of Spec are
\* shorter than the ten minutes after which a minute row is pruned, so that over all
\* its buckets a scope has as many units in one table as in the other.)
C13_AtomicPair ==
    /\ [](/\ \A s \in LedgerScopes : UnitsOf(usage_day, s) = UnitsOf(usage_minute, s)
          /\ \A k \in DOMAIN usage_day :
                usage_day[k] = EndedInDay(k[2], k[1], "allowed") + Committing(k[2], k[1])
          /\ \A k \in DOMAIN usage_minute :
                usage_minute[k] = EndedInMinute(k[2], k[1], "allowed")
                                      + CommittingInMinute(k[2], k[1]))
    /\ [][(usage_day' # usage_day \/ usage_minute' # usage_minute)
            => \E h \in Handlers :
                  /\ call[h].pc = "commit"
                  /\ call'[h].pc = "return_ok"
                  /\ call[h].allowed
                  /\ usage_day' = Upsert(usage_day, <<call[h].day, call[h].scope>>)
                  /\ usage_minute' = Upsert(DeleteOld(usage_minute, call[h].minute),
                                            <<call[h].minute, call[h].scope>>)
                  /\ Count(usage_day', <<call[h].day, call[h].scope>>)
                        = call[h].day_count + 1
                  /\ Count(usage_minute', <<call[h].minute, call[h].scope>>)
                        = call[h].minute_count + 1]_vars

\* an evaluation has just committed its unit to both counters while another evaluation
\* is running
C13_Witness ==
    \E h \in Handlers, g \in Handlers :
        /\ h # g
        /\ call[h].pc = "return_ok"
        /\ call[g].pc \in {"minute", "getdb", "prune"}
        /\ call[g].scope = call[h].scope
        /\ Count(usage_day, <<call[h].day, call[h].scope>>) = call[h].day_count + 1
        /\ Count(usage_minute, <<call[h].minute, call[h].scope>>) = call[h].minute_count + 1
-----------------------------------------------------------------------------
(* C14, C15, C19: the instants and the limits of one evaluation *)

\* the evaluation of h returned a denial of the minute limit
MinuteDenial(h) ==
    /\ Returned(h)
    /\ ~call[h].ok
    /\ ~DailyExceeded(call[h].rpd_limit, call[h].day_count)

\* C14: within one evaluation the day bucket, the minute bucket and the retry_after of
\* a minute denial come from one instant `now`: the minute bucket lies in the day
\* bucket, it is the minute of `now`, and a minute denial has
\* retry_after = max(1, 60 - (now mod 60)), also when a minute or a day boundary passes
\* while the evaluation runs.
C14_OneInstant ==
    \A h \in Handlers :
        Returned(h)
            => /\ call[h].day = DayOf(call[h].now)
               /\ call[h].minute = MinuteOf(call[h].now)
               /\ DayOf(call[h].minute * SecondsPerMinute) = call[h].day
               /\ MinuteDenial(h)
                     => call[h].retry_after
                            = Max(1, 60 - (call[h].now % 60))
\* C15: when the daily limit and the minute limit of a scope are both exhausted, the
\* evaluation reports the daily denial: retry_after is max(60, seconds to the next UTC
\* midnight), never the shorter value of the minute window.
C15_DailyFirst ==
    \A h \in Handlers :
        (/\ Returned(h)
         /\ call[h].rpd_limit > 0
         /\ call[h].day_count >= call[h].rpd_limit
         /\ call[h].rpm_limit > 0
         /\ call[h].minute_count >= call[h].rpm_limit)
            => /\ ~call[h].ok
               /\ call[h].retry_after >= 60
               /\ call[h].retry_after
                     = Max(60, (call[h].day + 1) * SecondsPerDay - call[h].now)

\* both limits (2 a day, 2 a minute) are exhausted and the denial carries the 90 seconds
\* to midnight, not the 30 seconds to the end of the minute
C15_Witness ==
    \E h \in Handlers :
        /\ Returned(h)
        /\ ~call[h].ok
        /\ call[h].rpd_limit = 2
        /\ call[h].day_count = 2
        /\ call[h].rpm_limit = 2
        /\ call[h].minute_count = 2
        /\ call[h].retry_after = 90
        /\ 60 - (clock % 60) = 30

\* C19: a limit of 0 disables the check of its own dimension only: with daily_limit = 0
\* a denial is always one of the minute limit, with minute_limit = 0 always one of the
\* daily limit, with both 0 nothing is denied; and an allowed evaluation adds 1 to the
\* day counter and 1 to the minute counter whatever the limits are.
C19_ZeroDisables ==
    \A h \in Handlers :
        Returned(h)
            => LET c == call[h]
                   day_row == Count(usage_day, <<c.day, c.scope>>)
                   minute_row == Count(usage_minute, <<c.minute, c.scope>>)
               IN /\ (c.rpd_limit = 0 /\ ~c.ok)
                        => /\ c.rpm_limit > 0
                           /\ c.minute_count >= c.rpm_limit
                           /\ c.retry_after \in 1..60
                  /\ (c.rpm_limit = 0 /\ ~c.ok)
                        => /\ c.rpd_limit > 0
                           /\ c.day_count >= c.rpd_limit
                           /\ c.retry_after >= 60
                  /\ (c.rpd_limit = 0 /\ c.rpm_limit = 0) => c.ok
                  /\ (c.rpd_limit = 0 /\ (c.rpm_limit = 0 \/ c.minute_count < c.rpm_limit))
                        => c.ok
                  /\ (c.rpm_limit = 0 /\ (c.rpd_limit = 0 \/ c.day_count < c.rpd_limit))
                        => c.ok
                  /\ c.ok => /\ day_row = c.day_count + 1
                             /\ minute_row = c.minute_count + 1
                  /\ ~c.ok => /\ day_row = c.day_count
                              /\ minute_row = c.minute_count
                  /\ day_row = EndedInDay(c.scope, c.day, "allowed")

\* with no daily limit the second admission of the day brings the day counter to 2
C19_Witness ==
    \E h \in Handlers :
        /\ Returned(h)
        /\ call[h].ok
        /\ call[h].rpd_limit = 0
        /\ call[h].rpm_limit = 1
        /\ call[h].day_count = 1
        /\ Count(usage_day, <<call[h].day, call[h].scope>>) = 2
-----------------------------------------------------------------------------
(* C16, C17: pruning of minute buckets *)

\* the minute buckets pruning has to keep at minute m
Kept(table, m) == {k \in DOMAIN table : k[1] >= m - KeepMinutes}

\* C16: pruning never removes the bucket of the current minute nor any bucket of the
\* ten minutes before it, for any scope: no step takes such a row from the committed
\* table or lowers it, the transaction of an evaluation keeps every such row as it is
\* committed, and the count an evaluation has read for its minute is the committed
\* count, whatever other evaluations have pruned.
C16_KeepsRecent ==
    /\ [](\A h \in Handlers :
             /\ conn[h].tx
                   => \A k \in Kept(usage_minute, call[h].minute) :
                         /\ k \in DOMAIN conn[h].minute
                         /\ conn[h].minute[k] >= usage_minute[k]
             /\ call[h].pc \in {"decide", "deny", "insert_day"}
                   => call[h].minute_count
                         = Count(usage_minute, <<call[h].minute, call[h].scope>>))
    /\ [][\A k \in Kept(usage_minute, MinuteOf(clock)) :
             /\ k \in DOMAIN usage_minute'
             /\ usage_minute'[k] >= usage_minute[k]]_vars

\* a commit at minute m has pruned the bucket of minute m - 11 and kept the one of
\* minute m - 10
C16_Witness ==
    \E h \in Handlers :
        /\ call[h].pc = "return_ok"
        /\ call[h].minute = MinuteOf(clock)
        /\ <<call[h].minute, call[h].scope>> \in DOMAIN usage_minute
        /\ <<call[h].minute - KeepMinutes, call[h].scope>> \in DOMAIN usage_minute
        /\ <<call[h].minute - KeepMinutes - 1, call[h].scope>> \notin DOMAIN usage_minute
        /\ EndedInMinute(call[h].scope, call[h].minute - KeepMinutes - 1, "allowed") > 0

-----------------------------------------------------------------------------
(* C20: a preference list with nothing to evaluate *)

\* the request of h was answered 429 on the return of _pick_model
Exhausted(h) ==
    /\ post[h].at = "done"
    /\ post[h].status = 429
    /\ post[h].requested = ""
    /\ ~(TotalEnded(h) /\ post[h].evals[1].outcome = "denied")

\* no candidate of the request's preference list is in the allowed set
NoCandidate(h) == Attempted(h, Len(Preferred(post[h].path))) = <<>>

\* C20: when no candidate of the preference list is in the allowed set, or the list is
\* empty, _pick_model makes no evaluation and changes no counter, and returns no model,
\* no diagnostics and retry_after = 60; the retry_after of an exhausted selection is
\* never 0.
C20_NothingToPick ==
    /\ \A h \in Handlers :
          /\ Exhausted(h)
                => /\ post[h].model = None
                   /\ post[h].retry_after >= 1
                   /\ post[h].preferred = Preferred(post[h].path)
          /\ (Exhausted(h) /\ NoCandidate(h))
                => /\ PickEvals(h) = <<>>
                   /\ post[h].retry_after = 60
                   /\ post[h].rl_headers = NoHeaders
                   /\ post[h].sent = post[h].total_headers
          /\ (post[h].at \in {"pick", "pick_call"} /\ NoCandidate(h))
                => /\ post[h].at = "pick"
                   /\ call[h].pc = "none"
                   /\ PickEvals(h) = <<>>
    /\ \A k \in DOMAIN usage_day \cup DOMAIN usage_minute :
          k[2] \in {SiteTotal} \cup {ModelScope(m) : m \in AllowedModels}

\* a request whose preference list names no allowed model was answered 429 with
\* Retry-After 60 after no evaluation of a model
C20_Witness ==
    \E h \in Handlers :
        /\ Exhausted(h)
        /\ post[h].preferred = <<Gemma, FlashLite>>
        /\ PickEvals(h) = <<>>
        /\ post[h].retry_after = 60
        /\ post[h].rl_headers = NoHeaders

====
